---- MODULE Spec2Model ----
(***************************************************************************)
(* Model of cccost: aggregation of token usage from session log files.     *)
(*   src/src/item.rs            Usage, Usage::add, LogEntry, Item          *)
(*   src/src/file_processor.rs  FileProcessor (scan, parse, merge, sort)   *)
(*                                                                         *)
(* Strings are sequences of byte values, Option<T> is a set with at most   *)
(* one element ({} is None, {x} is Some(x)).                               *)
(***************************************************************************)
EXTENDS Integers, Sequences, FiniteSets, TLC

VARIABLES
    overflow_checks,  \* build profile: TRUE = `a + b` panics on overflow, FALSE = wraps
    root,             \* FileProcessor.directory on disk: "missing" | "unreadable" | "ok"
    files,            \* the files below the root: file id -> place, extension, content
    all_files,        \* process_files: the Vec of discovered paths, in discovery order
    phase,            \* "idle" | "processing" | "returned" | "panicked"
    pc,               \* per file task of the parallel for_each: "pending" | "lines" | "done"
    line_no,          \* per file task: index of the next line of the JSON-Lines loop
    handed,           \* per file: the values handed to print_json_value, in order
    doc_parse,        \* per file: TRUE once the whole content was given to the JSON parser
    collected_items,  \* FileProcessor.collected_items: (model, timestamp_key) -> Usage
    outputs,          \* the sequences returned by process_files so far, oldest first
    alg               \* operands and results of Usage additions (algebra specification)

vars == <<overflow_checks, root, files, all_files, phase, pc, line_no, handed, doc_parse,
          collected_items, outputs, alg>>

run_vars == <<root, files, all_files, phase, pc, line_no, handed, doc_parse,
              collected_items, outputs>>

----------------------------------------------------------------------------
(* Bounds *)

NFiles == 2        \* number of files found under root/*/
MaxLines == 3      \* total number of lines over all files
MaxRuns == 2       \* invocations of process_files on one FileProcessor (SpecRerun)

(* Program constants *)

Limb == 65536   \* a u32 counter is written as two 16-bit limbs <<high, low>>

----------------------------------------------------------------------------
(* Option<T> *)

None == {}

Some(x) == {x}

Unwrap(o) == CHOOSE x \in o : TRUE

----------------------------------------------------------------------------
(* u32 *)

\* The u32 of value n, for n < 65536.
U32(n) == <<0, n>>

\* The carry out of the low limbs of a + b.
LowCarry(a, b) == (a[2] + b[2]) \div Limb

\* a + b as compiled without overflow checks: the sum modulo 2^32.
WrappingAdd(a, b) ==
    <<(a[1] + b[1] + LowCarry(a, b)) % Limb, (a[2] + b[2]) % Limb>>

\* a + b does not fit in u32: with overflow checks the addition panics.
Overflows(a, b) == a[1] + b[1] + LowCarry(a, b) >= Limb

----------------------------------------------------------------------------
(* Usage and its addition *)

NoUsage ==
    [input_tokens |-> None, output_tokens |-> None,
     cache_creation_input_tokens |-> None, cache_read_input_tokens |-> None]

\* AddField with the arm (Some(a), Some(b)) yielding Some(a).
AddFieldKeepLeft(x, y) ==
    CASE x # None -> Some(Unwrap(x))
      [] x = None /\ y # None -> Some(Unwrap(y))
      [] OTHER -> None

\* One field of Usage::add.
AddField(x, y) ==
    CASE x # None /\ y # None -> Some(WrappingAdd(Unwrap(x), Unwrap(y)))
      [] x # None /\ y = None -> Some(Unwrap(x))
      [] x = None /\ y # None -> Some(Unwrap(y))
      [] OTHER -> None

FieldOverflows(x, y) ==
    x # None /\ y # None /\ Overflows(Unwrap(x), Unwrap(y))

Add(self, other) ==
    [input_tokens |-> AddField(self.input_tokens, other.input_tokens),
     output_tokens |-> AddField(self.output_tokens, other.output_tokens),
     cache_creation_input_tokens |->
         AddField(self.cache_creation_input_tokens, other.cache_creation_input_tokens),
     cache_read_input_tokens |->
         AddField(self.cache_read_input_tokens, other.cache_read_input_tokens)]

AddOverflows(self, other) ==
    \/ FieldOverflows(self.input_tokens, other.input_tokens)
    \/ FieldOverflows(self.output_tokens, other.output_tokens)
    \/ FieldOverflows(self.cache_creation_input_tokens, other.cache_creation_input_tokens)
    \/ FieldOverflows(self.cache_read_input_tokens, other.cache_read_input_tokens)

----------------------------------------------------------------------------
(* Strings: String::cmp is the lexicographic order of the bytes *)

RECURSIVE StrLess(_, _)
StrLess(s, t) ==
    IF t = <<>> THEN FALSE
    ELSE IF s = <<>> THEN TRUE
    ELSE IF Head(s) # Head(t) THEN Head(s) < Head(t)
    ELSE StrLess(Tail(s), Tail(t))

\* (String, String)::cmp of the keys: model first, then timestamp key.
KeyLess(a, b) ==
    \/ StrLess(a[1], b[1])
    \/ a[1] = b[1] /\ StrLess(a[2], b[2])

\* "claude", "gpt"
Claude == <<99, 108, 97, 117, 100, 101>>

Gpt == <<103, 112, 116>>

\* "2024-01-01T00:00:00Z", "2024-01-01T12:30:00Z", "2024-02-01T00:00:00Z", "yesterday"
TsJan1 == <<50,48,50,52,45,48,49,45,48,49,84,48,48,58,48,48,58,48,48,90>>

TsJan1Noon == <<50,48,50,52,45,48,49,45,48,49,84,49,50,58,51,48,58,48,48,90>>

TsFeb1 == <<50,48,50,52,45,48,50,45,48,49,84,48,48,58,48,48,58,48,48,90>>

TsRaw == <<121,101,115,116,101,114,100,97,121>>

\* "2024-01-01T23:30:00-05:00", "2024-01-01T00:30:00+09:00",
\* "2024-01-02T08:00:00+09:00"
TsJan1LateWest == <<50,48,50,52,45,48,49,45,48,49,84,50,51,58,51,48,58,48,48,45,48,53,58,48,48>>

TsJan1EarlyEast == <<50,48,50,52,45,48,49,45,48,49,84,48,48,58,51,48,58,48,48,43,48,57,58,48,48>>

TsJan2EarlyEast == <<50,48,50,52,45,48,49,45,48,50,84,48,56,58,48,48,58,48,48,43,48,57,58,48,48>>

\* "2023-12-31", "2024-01-02"
Dec31 == <<50,48,50,51,45,49,50,45,51,49>>

Jan2 == <<50,48,50,52,45,48,49,45,48,50>>

\* "2024-01-01", "2024-02-01"
Jan1 == <<50,48,50,52,45,48,49,45,48,49>>

Feb1 == <<50,48,50,52,45,48,50,45,48,49>>

----------------------------------------------------------------------------
(* Item::get_timestamp_key: timestamp.parse::<DateTime<Utc>>() and "%Y-%m-%d" *)

IsDigit(b) == b >= 48 /\ b <= 57

\* The number written by the digits s[i..j].
RECURSIVE Number(_, _, _)
Number(s, i, j) ==
    IF j < i THEN 0 ELSE 10 * Number(s, i, j - 1) + (s[j] - 48)

DaysInMonth(y, m) ==
    IF m \in {4, 6, 9, 11} THEN 30
    ELSE IF m # 2 THEN 31
    ELSE IF (y % 4 = 0 /\ y % 100 # 0) \/ y % 400 = 0 THEN 29
    ELSE 28

\* The day before and the day after a date.
PrevDay(d) ==
    IF d.day > 1 THEN [d EXCEPT !.day = @ - 1]
    ELSE IF d.month > 1
         THEN [d EXCEPT !.month = @ - 1, !.day = DaysInMonth(d.year, d.month - 1)]
         ELSE [year |-> d.year - 1, month |-> 12, day |-> 31]

NextDay(d) ==
    IF d.day < DaysInMonth(d.year, d.month) THEN [d EXCEPT !.day = @ + 1]
    ELSE IF d.month < 12
         THEN [d EXCEPT !.month = @ + 1, !.day = 1]
         ELSE [year |-> d.year + 1, month |-> 1, day |-> 1]

\* Timestamps of the forms YYYY-MM-DDTHH:MM:SSZ and YYYY-MM-DDTHH:MM:SS+hh:mm
\* (or -hh:mm) parse, and the instant is converted to UTC: the result is the
\* date of that instant in UTC.  Every other string of the model's input
\* sets is rejected by the parser.
ParseDateTimeUtc(ts) ==
    LET zulu == Len(ts) = 20 /\ ts[20] = 90
        offset == /\ Len(ts) = 25
                  /\ ts[20] \in {43, 45} /\ ts[23] = 58
                  /\ \A i \in {21, 22, 24, 25} : IsDigit(ts[i])
                  /\ Number(ts, 21, 22) <= 23 /\ Number(ts, 24, 25) <= 59
    IN
    IF /\ zulu \/ offset
       /\ \A i \in {1,2,3,4,6,7,9,10,12,13,15,16,18,19} : IsDigit(ts[i])
       /\ ts[5] = 45 /\ ts[8] = 45 /\ ts[11] = 84
       /\ ts[14] = 58 /\ ts[17] = 58
    THEN LET year == Number(ts, 1, 4)
             month == Number(ts, 6, 7)
             day == Number(ts, 9, 10)
             local == 60 * Number(ts, 12, 13) + Number(ts, 15, 16)
             east == IF zulu THEN 0
                     ELSE (IF ts[20] = 43 THEN 1 ELSE -1)
                            * (60 * Number(ts, 21, 22) + Number(ts, 24, 25))
             date == [year |-> year, month |-> month, day |-> day]
         IN  IF /\ month \in 1..12
                /\ day \in 1..DaysInMonth(year, month)
                /\ Number(ts, 12, 13) <= 23
                /\ Number(ts, 15, 16) <= 59
                /\ Number(ts, 18, 19) <= 60
             THEN Some(IF local - east < 0 THEN PrevDay(date)
                       ELSE IF local - east >= 1440 THEN NextDay(date)
                       ELSE date)
             ELSE None
    ELSE None

\* n written with `width` digits, zero padded.
RECURSIVE Digits(_, _)
Digits(n, width) ==
    IF width = 0 THEN <<>> ELSE Append(Digits(n \div 10, width - 1), 48 + (n % 10))

FormatDate(dt) ==
    Digits(dt.year, 4) \o <<45>> \o Digits(dt.month, 2) \o <<45>> \o Digits(dt.day, 2)

\* get_timestamp_key that cuts the date off the front of a timestamp that
\* parses, without the conversion to UTC.
get_timestamp_key_as_written(item) ==
    LET parsed == ParseDateTimeUtc(item.timestamp) IN
    IF parsed # None THEN SubSeq(item.timestamp, 1, 10) ELSE item.timestamp

get_timestamp_key(item) ==
    LET parsed == ParseDateTimeUtc(item.timestamp) IN
    IF parsed # None THEN FormatDate(Unwrap(parsed)) ELSE item.timestamp

----------------------------------------------------------------------------
(* JSON values and their decoding *)

\* A parsed serde_json::Value, as far as LogEntry looks at it: the "timestamp"
\* member, the "message" member and in it "model" and "usage" (None = member
\* missing or null).
JsonValue(ts, msg) == [timestamp |-> ts, message |-> msg]

JsonMessage(model, usage) == [model |-> model, usage |-> usage]

\* serde_json::from_value::<LogEntry>: timestamp and message are required.
from_value(value) ==
    IF value.timestamp # None /\ value.message # None
    THEN Some([timestamp |-> Unwrap(value.timestamp), message |-> Unwrap(value.message)])
    ELSE None

\* from_log_entry with a missing model replaced by the empty string.
from_log_entry_default_model(entry) ==
    Some([model |-> IF entry.message.model # None THEN Unwrap(entry.message.model) ELSE <<>>,
          timestamp |-> entry.timestamp,
          usage |-> entry.message.usage])

from_log_entry(entry) ==
    IF entry.message.model # None
    THEN Some([model |-> Unwrap(entry.message.model),
               timestamp |-> entry.timestamp,
               usage |-> entry.message.usage])
    ELSE None

----------------------------------------------------------------------------
(* File content: a sequence of lines.  A line is one of                     *)
(*   blank  only whitespace                                                 *)
(*   value  a complete JSON value on one line                               *)
(*   open   the first part of a JSON document that spans lines, e.g.        *)
(*          {"timestamp":"..","message":{"model":"m"}   (last brace missing)*)
(*   close  the closing part of such a document, e.g.  }                    *)
(*   bad    text that is no JSON at all                                     *)

NoJson == JsonValue(None, None)

BlankLine == [kind |-> "blank", json |-> NoJson]

BadLine == [kind |-> "bad", json |-> NoJson]

CloseLine == [kind |-> "close", json |-> NoJson]

ValueLine(v) == [kind |-> "value", json |-> v]

OpenLine(v) == [kind |-> "open", json |-> v]

\* line.trim().is_empty()
IsBlank(line) == line.kind = "blank"

\* serde_json::from_str::<Value>(line) of one line
from_str_line(line) ==
    IF line.kind = "value" THEN Some(line.json) ELSE None

NonBlank(content) == SelectSeq(content, LAMBDA l : ~IsBlank(l))

\* serde_json::from_str::<Value>(content) of the whole content: exactly one
\* JSON value, surrounded and separated by whitespace only.
from_str_content(content) ==
    LET nb == NonBlank(content) IN
    IF Len(nb) = 1 /\ nb[1].kind = "value" THEN Some(nb[1].json)
    ELSE IF Len(nb) = 2 /\ nb[1].kind = "open" /\ nb[2].kind = "close" THEN Some(nb[1].json)
    ELSE None

\* lines.iter().find(|line| !line.trim().is_empty())
first_line(content) ==
    IF NonBlank(content) = <<>> THEN None ELSE Some(Head(NonBlank(content)))

\* Framing that takes the JSON-Lines loop when any line is a JSON value.
FramingAnyLine(content) ==
    IF content = <<>> \/ first_line(content) = None THEN "none"
    ELSE IF \E i \in DOMAIN content : from_str_line(content[i]) # None THEN "lines"
    ELSE "doc"

\* Framing decided by the first line, blank or not.
FramingFirstLine(content) ==
    IF content = <<>> \/ first_line(content) = None THEN "none"
    ELSE IF from_str_line(Head(content)) # None THEN "lines"
    ELSE "doc"

\* The branch print_json_content takes: "none" (returns at once), "lines"
\* (JSON-Lines loop) or "doc" (whole content parsed as one document).
Framing(content) ==
    IF content = <<>> \/ first_line(content) = None THEN "none"
    ELSE IF from_str_line(Unwrap(first_line(content))) # None THEN "lines"
    ELSE "doc"

----------------------------------------------------------------------------
(* FileProcessor: the table and its operations *)

EmptyTable == [k \in {} |-> NoUsage]

ItemKey(item) == <<item.model, get_timestamp_key(item)>>

\* collect_item with `insert` in place of the merging entry API: a later
\* record of a key replaces the stored counter.
collect_item_replace(items, item) ==
    LET key == ItemKey(item) IN
    IF item.usage = None THEN items
    ELSE [k \in DOMAIN items \cup {key} |->
             IF k = key THEN Unwrap(item.usage) ELSE items[k]]

\* collect_item without the `if let Some(usage)` guard: a record without
\* usage is merged as the all-absent counter, so its key enters the table.
collect_item_keyed(items, item) ==
    LET usage == IF item.usage = None THEN NoUsage ELSE Unwrap(item.usage)
        key == ItemKey(item)
    IN  IF key \in DOMAIN items
        THEN [items EXCEPT ![key] = Add(@, usage)]
        ELSE [k \in DOMAIN items \cup {key} |-> IF k = key THEN usage ELSE items[k]]

\* collect_item without the panic case: the table after the call.
collect_item(items, item) ==
    LET key == ItemKey(item) IN
    IF item.usage = None THEN items
    ELSE IF key \in DOMAIN items
         THEN [items EXCEPT ![key] = Add(@, Unwrap(item.usage))]
         ELSE [k \in DOMAIN items \cup {key} |->
                  IF k = key THEN Unwrap(item.usage) ELSE items[k]]

\* `existing.clone() + usage.clone()` overflows a field.
collect_overflows(items, item) ==
    LET key == ItemKey(item) IN
    /\ item.usage # None
    /\ key \in DOMAIN items
    /\ AddOverflows(items[key], Unwrap(item.usage))

\* from_value::<LogEntry> and Item::from_log_entry: the item to collect, if any.
DecodeItem(value) ==
    LET entry == from_value(value) IN
    IF entry = None THEN None ELSE from_log_entry(Unwrap(entry))

print_json_value(items, value) ==
    LET item == DecodeItem(value) IN
    IF item = None THEN items ELSE collect_item(items, Unwrap(item))

print_json_value_overflows(items, value) ==
    LET item == DecodeItem(value) IN
    item # None /\ collect_overflows(items, Unwrap(item))

\* InsertSorted comparing the date bucket before the model.
RECURSIVE InsertSortedByDate(_, _)
InsertSortedByDate(s, x) ==
    IF s = <<>> THEN <<x>>
    ELSE IF KeyLess(<<x[1][2], x[1][1]>>, <<Head(s)[1][2], Head(s)[1][1]>>) THEN <<x>> \o s
    ELSE <<Head(s)>> \o InsertSortedByDate(Tail(s), x)

\* sort_by(|a, b| a.0.cmp(&b.0)): stable, as an insertion sort.
RECURSIVE InsertSorted(_, _)
InsertSorted(s, x) ==
    IF s = <<>> THEN <<x>>
    ELSE IF KeyLess(x[1], Head(s)[1]) THEN <<x>> \o s
    ELSE <<Head(s)>> \o InsertSorted(Tail(s), x)

RECURSIVE sort_by(_)
sort_by(s) ==
    IF s = <<>> THEN <<>>
    ELSE InsertSorted(sort_by(SubSeq(s, 1, Len(s) - 1)), s[Len(s)])

\* The orders in which HashMap::iter can visit the entries.
IterOrders(items) ==
    {o \in [1..Cardinality(DOMAIN items) -> DOMAIN items] :
        \A i, j \in DOMAIN o : i # j => o[i] # o[j]}

\* get_merged_results without the sort: the entries in iteration order.
get_merged_results_unsorted(items, order) ==
    [i \in DOMAIN order |-> <<order[i], items[order[i]]>>]

\* get_merged_results, hash map iterated in the order `order`.
get_merged_results(items, order) ==
    sort_by([i \in DOMAIN order |-> <<order[i], items[order[i]]>>])

----------------------------------------------------------------------------
(* Inputs *)

UsageOf(input, output, creation, read) ==
    [input_tokens |-> input, output_tokens |-> output,
     cache_creation_input_tokens |-> creation, cache_read_input_tokens |-> read]

Record(model, ts, usage) ==
    ValueLine(JsonValue(Some(ts), Some(JsonMessage(model, usage))))

\* 4294967290 = 2^32 - 6
NearMax == <<65535, 65530>>

\* Lines of the files of a run: records of three keys, one of them with a
\* count near the top of u32, and a record without usage.
RunLines ==
    { Record(Some(Claude), TsJan1, Some(UsageOf({U32(10)}, None, None, None))),
      Record(Some(Claude), TsJan1Noon, Some(UsageOf({NearMax}, {U32(20)}, None, None))),
      Record(Some(Gpt), TsJan1, Some(UsageOf(None, None, None, {U32(7)}))),
      Record(Some(Claude), TsFeb1, Some(UsageOf({U32(0)}, None, {U32(3)}, None))),
      Record(Some(Claude), TsJan1, None) }

\* Lines of a single file, for the parser: every kind of line, and values
\* that do or do not decode to a record.
ParseLines ==
    { BlankLine, BadLine, CloseLine,
      Record(Some(Claude), TsJan1, Some(UsageOf({U32(5)}, None, None, None))),
      Record(Some(Gpt), TsRaw, Some(UsageOf(None, {U32(20)}, None, None))),
      Record(Some(Claude), TsJan1Noon, None),
      Record(Some(Gpt), TsJan1, Some(NoUsage)),
      Record(None, TsJan1, Some(UsageOf({U32(5)}, None, None, None))),
      ValueLine(JsonValue(None, Some(JsonMessage(Some(Claude),
                                         Some(UsageOf({U32(5)}, None, None, None)))))),
      ValueLine(NoJson),
      OpenLine(JsonValue(Some(TsJan1), Some(JsonMessage(Some(Claude),
                                         Some(UsageOf({U32(5)}, None, None, None)))))) }

\* The content of file f when the lines `flat` are dealt to the files by `owner`.
Dealt(flat, owner, f) ==
    SubSeq(flat, 1 + Cardinality({i \in DOMAIN owner : owner[i] < f}),
                 Cardinality({i \in DOMAIN owner : owner[i] <= f}))

NonDecreasing(owner) ==
    \A i, j \in DOMAIN owner : i <= j => owner[i] <= owner[j]

\* The files are numbered longest first; the order in which a run finds them
\* is chosen in process_files.
LongestFirst(owner, n) ==
    \A f \in 1..n, g \in 1..n :
        f < g => Cardinality({i \in DOMAIN owner : owner[i] = f})
                    >= Cardinality({i \in DOMAIN owner : owner[i] = g})

\* A file below the root. place: "sub" is root/<dir>/<file>, "root" is
\* root/<file>, "deep" is root/<dir>/<dir>/<file>; dir_readable: read_dir
\* succeeds on the directory of root that leads to the file; readable:
\* read_to_string succeeds on the file.
FileAt(place, dir_readable, readable, ext, content) ==
    [place |-> place, dir_readable |-> dir_readable, readable |-> readable,
     ext |-> ext, content |-> content]

FileOf(ext, content) == FileAt("sub", TRUE, TRUE, ext, content)

NoResult == [panic |-> FALSE, val |-> NoUsage]

AlgIdle == [stage |-> "off", a |-> NoUsage, b |-> NoUsage, c |-> NoUsage,
            ab |-> NoResult, ba |-> NoResult, ab_c |-> NoResult, a_bc |-> NoResult]

\* FileProcessor::new over a directory whose files hold at most MaxLines
\* lines in total, drawn from `lines`, in files 1..n with extensions `exts`.
InitRun(n, lines, exts) ==
    /\ overflow_checks \in BOOLEAN
    /\ root = "ok"
    /\ \E k \in 0..MaxLines : \E flat \in [1..k -> lines] : \E owner \in [1..k -> 1..n] :
          /\ NonDecreasing(owner)
          /\ LongestFirst(owner, n)
          /\ \E ext \in [1..n -> exts] :
                files = [f \in 1..n |-> FileOf(ext[f], Dealt(flat, owner, f))]
    /\ all_files = <<>>
    /\ phase = "idle"
    /\ pc = [f \in 1..n |-> "pending"]
    /\ line_no = [f \in 1..n |-> 1]
    /\ handed = [f \in 1..n |-> <<>>]
    /\ doc_parse = [f \in 1..n |-> FALSE]
    /\ collected_items = EmptyTable
    /\ outputs = <<>>
    /\ alg = AlgIdle

Init == InitRun(NFiles, RunLines, {"jsonl"})

InitParse == InitRun(1, ParseLines, {"json", "jsonl"})

\* Records of one model with timestamps in UTC, with offsets whose UTC day is
\* not the day they are written with, and with strings that do not parse.
KeyStamps ==
    {TsJan1, TsJan1Noon, TsJan1LateWest, TsJan1EarlyEast, TsJan2EarlyEast, TsRaw, Jan1}

KeyLines ==
    {Record(Some(Claude), ts, Some(UsageOf({U32(1)}, None, None, None))) : ts \in KeyStamps}

InitKey == InitRun(1, KeyLines, {"jsonl"})

\* Two records of one key, for the files of the directory tree.
RecA == Record(Some(Claude), TsJan1, Some(UsageOf({U32(5)}, None, None, None)))
RecB == Record(Some(Claude), TsJan1Noon, Some(UsageOf({U32(10)}, {U32(20)}, None, None)))

RootStates == {"missing", "unreadable", "ok"}

\* The files of the tree: log files of root/<dir>/ (well formed, with a
\* malformed line, and malformed as a whole: the first line is not JSON and
\* the content is no document), and files holding a valid
\* record that have another extension, do not read, sit in a directory that
\* does not list, sit in the root itself, or sit one directory deeper.
FsFiles ==
    << FileOf("jsonl", <<RecA>>),
       FileOf("jsonl", <<RecA, BadLine, RecB>>),
       FileOf("jsonl", <<BadLine, RecA>>),
       FileOf("json", <<RecA>>),
       FileOf("json", <<RecA, BadLine, RecB>>),
       FileOf("json", <<BadLine, RecA>>),
       FileAt("sub", TRUE, TRUE, "txt", <<RecA>>),
       FileAt("sub", TRUE, FALSE, "jsonl", <<RecA>>),
       FileAt("sub", FALSE, TRUE, "jsonl", <<RecA>>),
       FileAt("root", TRUE, TRUE, "jsonl", <<RecA>>),
       FileAt("deep", TRUE, TRUE, "jsonl", <<RecA>>) >>

\* FileProcessor::new over a root in any state, with NFiles files below it.
\* The files are numbered in the order of FsFiles; the order in which a run
\* finds them is chosen in process_files.
InitFs ==
    /\ overflow_checks \in BOOLEAN
    /\ root \in RootStates
    /\ \E pick \in [1..NFiles -> DOMAIN FsFiles] :
          /\ NonDecreasing(pick)
          /\ files = [f \in 1..NFiles |-> FsFiles[pick[f]]]
    /\ all_files = <<>>
    /\ phase = "idle"
    /\ pc = [f \in 1..NFiles |-> "pending"]
    /\ line_no = [f \in 1..NFiles |-> 1]
    /\ handed = [f \in 1..NFiles |-> <<>>]
    /\ doc_parse = [f \in 1..NFiles |-> FALSE]
    /\ collected_items = EmptyTable
    /\ outputs = <<>>
    /\ alg = AlgIdle

----------------------------------------------------------------------------
(* process_files *)

MainRuns == 1   \* main calls process_files once on the FileProcessor it creates

Orderings(S) ==
    {o \in [1..Cardinality(S) -> S] : \A i, j \in DOMAIN o : i # j => o[i] # o[j]}

InAllFiles(f) == \E i \in DOMAIN all_files : all_files[i] = f

\* Discovered with the error of a subdirectory that does not list passed up:
\* one such directory and nothing is found.
DiscoveredAllOrNothing(fs) ==
    IF \E f \in DOMAIN fs : fs[f].place = "sub" /\ ~fs[f].dir_readable
    THEN {}
    ELSE {f \in DOMAIN fs : fs[f].place = "sub"}

\* Discovered as a walk that descends into the directories of a subdirectory.
\* The files the two read_dir levels find: the entries of root that are
\* directories are listed, and of their entries the files are kept.
\* A directory that fails to list gives no entries.
DiscoveredRecursive(fs) ==
    {f \in DOMAIN fs : fs[f].place \in {"sub", "deep"} /\ fs[f].dir_readable}

Discovered(fs) ==
    {f \in DOMAIN fs : fs[f].place = "sub" /\ fs[f].dir_readable}

\* process_files with `unwrap` on the listing of the root: a root that does
\* not list panics.
process_files_unwrap(limit) ==
    /\ phase \in {"idle", "returned"}
    /\ Len(outputs) < limit
    /\ CASE root = "ok" ->
              /\ all_files' \in Orderings(Discovered(files))
              /\ phase' = "processing"
              /\ UNCHANGED outputs
         [] root = "missing" ->
              /\ all_files' = <<>>
              /\ phase' = "returned"
              /\ outputs' = Append(outputs, <<>>)
         [] OTHER ->
              /\ all_files' = <<>>
              /\ phase' = "panicked"
              /\ UNCHANGED outputs
    /\ pc' = [f \in DOMAIN files |-> "pending"]
    /\ line_no' = [f \in DOMAIN files |-> 1]
    /\ handed' = [f \in DOMAIN files |-> <<>>]
    /\ doc_parse' = [f \in DOMAIN files |-> FALSE]
    /\ UNCHANGED <<overflow_checks, root, files, collected_items, alg>>

\* Entry of process_files: the early returns for a root that does not exist
\* or does not list, else the files of the subdirectories are collected,
\* in any order, up to the start of the parallel for_each.
process_files(limit) ==
    /\ phase \in {"idle", "returned"}
    /\ Len(outputs) < limit
    /\ IF root = "ok"
       THEN /\ all_files' \in Orderings(Discovered(files))
            /\ phase' = "processing"
            /\ UNCHANGED outputs
       ELSE /\ all_files' = <<>>
            /\ phase' = "returned"
            /\ outputs' = Append(outputs, <<>>)
    /\ pc' = [f \in DOMAIN files |-> "pending"]
    /\ line_no' = [f \in DOMAIN files |-> 1]
    /\ handed' = [f \in DOMAIN files |-> <<>>]
    /\ doc_parse' = [f \in DOMAIN files |-> FALSE]
    /\ UNCHANGED <<overflow_checks, root, files, collected_items, alg>>

\* print_json_value on the shared table: the merge under the mutex, or the
\* panic of the overflowing addition (which poisons the mutex and ends the run).
HandValue(f, value) ==
    /\ handed' = [handed EXCEPT ![f] = Append(@, value)]
    /\ IF overflow_checks /\ print_json_value_overflows(collected_items, value)
       THEN /\ phase' = "panicked"
            /\ UNCHANGED collected_items
       ELSE /\ phase' = phase
            /\ collected_items' = print_json_value(collected_items, value)

\* Eligible without the test of the extension.
EligibleAnyExtension(file) == file.readable

\* process_file passes the content on when the file reads and its extension
\* is json or jsonl.
Eligible(file) == file.readable /\ file.ext \in {"json", "jsonl"}

\* A worker takes file f: process_file and print_json_content up to the
\* JSON-Lines loop, or through the whole-document branch.
process_file(f) ==
    /\ phase = "processing"
    /\ InAllFiles(f)
    /\ pc[f] = "pending"
    /\ LET framing == IF Eligible(files[f]) THEN Framing(files[f].content) ELSE "none"
       IN  CASE framing = "lines" ->
                  /\ pc' = [pc EXCEPT ![f] = "lines"]
                  /\ UNCHANGED <<phase, handed, doc_parse, collected_items>>
             [] framing = "doc" ->
                  /\ doc_parse' = [doc_parse EXCEPT ![f] = TRUE]
                  /\ IF from_str_content(files[f].content) # None
                     THEN HandValue(f, Unwrap(from_str_content(files[f].content)))
                     ELSE UNCHANGED <<phase, handed, collected_items>>
                  /\ pc' = [pc EXCEPT ![f] = IF phase' = "panicked" THEN @ ELSE "done"]
             [] OTHER ->
                  /\ pc' = [pc EXCEPT ![f] = "done"]
                  /\ UNCHANGED <<phase, handed, doc_parse, collected_items>>
    /\ UNCHANGED <<overflow_checks, root, files, all_files, line_no, outputs, alg>>

\* jsonl_line with `break` in place of skipping a line that fails to parse.
jsonl_line_break(f) ==
    /\ phase = "processing"
    /\ pc[f] = "lines"
    /\ LET line == files[f].content[line_no[f]] IN
          /\ IF ~IsBlank(line) /\ from_str_line(line) # None
             THEN HandValue(f, Unwrap(from_str_line(line)))
             ELSE UNCHANGED <<phase, handed, collected_items>>
          /\ IF phase' = "panicked"
             THEN UNCHANGED <<pc, line_no>>
             ELSE /\ line_no' = [line_no EXCEPT ![f] = @ + 1]
                  /\ pc' = [pc EXCEPT ![f] =
                               IF \/ line_no[f] = Len(files[f].content)
                                  \/ (~IsBlank(line) /\ from_str_line(line) = None)
                               THEN "done" ELSE @]
    /\ UNCHANGED <<overflow_checks, root, files, all_files, doc_parse, outputs, alg>>

\* One iteration of `for line in content.lines()` in the worker of file f.
jsonl_line(f) ==
    /\ phase = "processing"
    /\ pc[f] = "lines"
    /\ LET line == files[f].content[line_no[f]] IN
          IF ~IsBlank(line) /\ from_str_line(line) # None
          THEN HandValue(f, Unwrap(from_str_line(line)))
          ELSE UNCHANGED <<phase, handed, collected_items>>
    /\ IF phase' = "panicked"
       THEN UNCHANGED <<pc, line_no>>
       ELSE /\ line_no' = [line_no EXCEPT ![f] = @ + 1]
            /\ pc' = [pc EXCEPT ![f] = IF line_no[f] = Len(files[f].content)
                                       THEN "done" ELSE @]
    /\ UNCHANGED <<overflow_checks, root, files, all_files, doc_parse, outputs, alg>>

\* The for_each has joined: get_merged_results, and process_files returns.
return_results ==
    /\ phase = "processing"
    /\ \A f \in DOMAIN files : InAllFiles(f) => pc[f] = "done"
    /\ \E order \in IterOrders(collected_items) :
          outputs' = Append(outputs, get_merged_results(collected_items, order))
    /\ phase' = "returned"
    /\ UNCHANGED <<overflow_checks, root, files, all_files, pc, line_no, handed, doc_parse,
                   collected_items, alg>>

Next ==
    \/ process_files(MainRuns)
    \/ \E f \in DOMAIN files : process_file(f)
    \/ \E f \in DOMAIN files : jsonl_line(f)
    \/ return_results

Spec == Init /\ [][Next]_vars

SpecParse == InitParse /\ [][Next]_vars

SpecFs == InitFs /\ [][Next]_vars

SpecKey == InitKey /\ [][Next]_vars

NextRerun ==
    \/ process_files(MaxRuns)
    \/ \E f \in DOMAIN files : process_file(f)
    \/ \E f \in DOMAIN files : jsonl_line(f)
    \/ return_results

SpecRerun == Init /\ [][NextRerun]_vars

----------------------------------------------------------------------------
(* Usage addition on its own: a + b, b + a, (a + b) + c, a + (b + c) *)

\* Field values of the operands: absent, 65535 (low limb full) and
\* 4294901761 = 2^32 - 65535 (so 65535 + 65535 carries into the high limb
\* and 65535 + 4294901761 is exactly 2^32).
AlgValues == {None, Some(<<0, 65535>>), Some(<<65535, 1>>)}

AlgUsages ==
    {UsageOf(i, o, c, r) : i \in AlgValues, o \in AlgValues, c \in AlgValues, r \in AlgValues}

Panicked == [panic |-> TRUE, val |-> NoUsage]

\* x + y of two results of earlier additions, under the build's overflow
\* behaviour: a panic of an operand or of this addition ends the evaluation.
AddResult(x, y, checks) ==
    IF x.panic \/ y.panic \/ (checks /\ AddOverflows(x.val, y.val))
    THEN Panicked
    ELSE [panic |-> FALSE, val |-> Add(x.val, y.val)]

Val(u) == [panic |-> FALSE, val |-> u]

InitAdd ==
    /\ overflow_checks \in BOOLEAN
    /\ root = "ok"
    /\ \E a \in AlgUsages : alg = [AlgIdle EXCEPT !.stage = "a", !.a = a]
    /\ files = <<>>
    /\ all_files = <<>>
    /\ phase = "idle"
    /\ pc = <<>>
    /\ line_no = <<>>
    /\ handed = <<>>
    /\ doc_parse = <<>>
    /\ collected_items = EmptyTable
    /\ outputs = <<>>

add_pair ==
    /\ alg.stage = "a"
    /\ \E b \in AlgUsages :
          alg' = [alg EXCEPT !.stage = "ab", !.b = b,
                             !.ab = AddResult(Val(alg.a), Val(b), overflow_checks),
                             !.ba = AddResult(Val(b), Val(alg.a), overflow_checks)]
    /\ UNCHANGED <<overflow_checks, run_vars>>

add_third ==
    /\ alg.stage = "ab"
    /\ \E c \in AlgUsages :
          alg' = [alg EXCEPT !.stage = "abc", !.c = c,
                             !.ab_c = AddResult(alg.ab, Val(c), overflow_checks),
                             !.a_bc = AddResult(Val(alg.a),
                                                AddResult(Val(alg.b), Val(c), overflow_checks),
                                                overflow_checks)]
    /\ UNCHANGED <<overflow_checks, run_vars>>

NextAdd == add_pair \/ add_third

SpecAdd == InitAdd /\ [][NextAdd]_vars

----------------------------------------------------------------------------
(* What a run is expected to aggregate, computed from the files alone *)

Range(s) == {s[i] : i \in DOMAIN s}

\* The values of the lines that are complete JSON values, in file order.
ValidValues(content) ==
    LET sel == SelectSeq(content, LAMBDA l : l.kind = "value")
    IN  [i \in DOMAIN sel |-> sel[i].json]

\* The sequence of JSON values a content yields.
Yielded(content) ==
    IF NonBlank(content) = <<>> THEN <<>>
    ELSE IF Head(NonBlank(content)).kind = "value" THEN ValidValues(content)
    ELSE IF from_str_content(content) # None THEN <<Unwrap(from_str_content(content))>>
    ELSE <<>>

\* File f is a log file the run reads: root/<dir>/<file> with extension json
\* or jsonl, where the root, the directory and the file all read.
Parsed(f) ==
    /\ root = "ok"
    /\ files[f].place = "sub" /\ files[f].dir_readable
    /\ files[f].readable
    /\ files[f].ext = "json" \/ files[f].ext = "jsonl"

\* The usage-carrying records of file f with their keys, in file order.
RecordsOfFile(f) ==
    LET vals == SelectSeq(IF Parsed(f) THEN Yielded(files[f].content) ELSE <<>>,
                          LAMBDA v : DecodeItem(v) # None /\ Unwrap(DecodeItem(v)).usage # None)
    IN  [i \in DOMAIN vals |->
            [key |-> ItemKey(Unwrap(DecodeItem(vals[i]))),
             usage |-> Unwrap(Unwrap(DecodeItem(vals[i])).usage)]]

RECURSIVE RecordsUpTo(_)
RecordsUpTo(f) ==
    IF f = 0 THEN <<>> ELSE RecordsUpTo(f - 1) \o RecordsOfFile(f)

AllRecords == RecordsUpTo(Cardinality(DOMAIN files))

UsagesFor(key) ==
    LET recs == SelectSeq(AllRecords, LAMBDA r : r.key = key)
    IN  [i \in DOMAIN recs |-> recs[i].usage]

\* us[1] + us[2] + ... + us[n], for n >= 1
RECURSIVE MergeAll(_)
MergeAll(us) ==
    IF Len(us) = 1 THEN us[1]
    ELSE Add(MergeAll(SubSeq(us, 1, Len(us) - 1)), us[Len(us)])

\* Some addition of us[1] + us[2] + ... + us[n] overflows a field.
RECURSIVE MergeOverflows(_)
MergeOverflows(us) ==
    /\ Len(us) >= 2
    /\ \/ MergeOverflows(SubSeq(us, 1, Len(us) - 1))
       \/ AddOverflows(MergeAll(SubSeq(us, 1, Len(us) - 1)), us[Len(us)])

ExpectedKeys == {r.key : r \in Range(AllRecords)}

ExpectedTable == [k \in ExpectedKeys |-> MergeAll(UsagesFor(k))]

ExpectedOverflow == \E k \in ExpectedKeys : MergeOverflows(UsagesFor(k))

LastOutput == outputs[Len(outputs)]

----------------------------------------------------------------------------
\* C1: when process_files has returned, whatever the interleaving of the file
\* workers, the table holds exactly the keys of the usage-carrying records of
\* all files, and under each key the merge of all those records' counters,
\* each merged once.
C1_EveryRecordMergedOnce ==
    phase = "returned" =>
        /\ DOMAIN collected_items = ExpectedKeys
        /\ \A k \in ExpectedKeys : collected_items[k] = MergeAll(UsagesFor(k))

\* C1 witness: a returned run in which both files hold records of one key.
C1_Witness ==
    /\ phase = "returned"
    /\ \E k \in DOMAIN collected_items :
          /\ \E r \in Range(RecordsOfFile(1)) : r.key = k
          /\ \E r \in Range(RecordsOfFile(2)) : r.key = k
          /\ collected_items[k] = UsageOf({U32(20)}, None, None, None)

\* C4: the outcome of a run is a function of the files alone: a run that
\* returns returns the one sequence determined by the files, whatever the
\* discovery order, the interleaving of the merges and the iteration order of
\* the map; and whether the run returns or panics on an overflowing addition
\* is determined by the files and the build as well.
C4_OutputDeterminedByFiles ==
    /\ phase = "returned" =>
          /\ LastOutput = get_merged_results(ExpectedTable,
                              CHOOSE o \in IterOrders(ExpectedTable) : TRUE)
          /\ ~(overflow_checks /\ ExpectedOverflow)
    /\ phase = "panicked" => ExpectedOverflow

\* C4 witness: a returned run with two keys in the output, whose files were
\* discovered in the order 2, 1 and both contributed records.
C4_Witness ==
    /\ phase = "returned"
    /\ all_files[1] = 2
    /\ Len(LastOutput) >= 2
    /\ RecordsOfFile(1) # <<>>
    /\ RecordsOfFile(2) # <<>>

\* C5: the returned sequence is strictly ascending by key, model first and
\* date bucket second, in the lexicographic order of the strings; so no key
\* occurs twice.
C5_OutputStrictlySorted ==
    \A n \in DOMAIN outputs : \A i, j \in DOMAIN outputs[n] :
        i < j => KeyLess(outputs[n][i][1], outputs[n][j][1])

\* C5 witness: a returned sequence of three keys, among them a later date of
\* the smaller model and an earlier date of the larger model.
C5_Witness ==
    /\ phase = "returned"
    /\ Len(LastOutput) = 3
    /\ LastOutput[2][1] = <<Claude, Feb1>>
    /\ LastOutput[3][1] = <<Gpt, Jan1>>

----------------------------------------------------------------------------
\* C2: Usage addition is commutative and associative on all four fields:
\* a + b and b + a, and (a + b) + c and a + (b + c), have the same outcome
\* (the same counter, or both end in the overflow panic).
C2_AddCommutativeAssociative ==
    /\ alg.stage \in {"ab", "abc"} => alg.ab = alg.ba
    /\ alg.stage = "abc" => alg.ab_c = alg.a_bc

\* C2 witness: three different operands added without overflow, the sum of a
\* field carrying into the high limb.
C2_Witness ==
    /\ alg.stage = "abc"
    /\ alg.a # alg.b /\ alg.b # alg.c /\ alg.a # alg.c
    /\ ~alg.ab_c.panic
    /\ alg.ab_c.val.input_tokens = Some(<<2, 65533>>)
    /\ alg.ab_c.val.output_tokens = Some(<<65535, 1>>)

Fields == {"input_tokens", "output_tokens", "cache_creation_input_tokens",
           "cache_read_input_tokens"}

\* The integer a + b of two u32, as three limbs.
ExactSum(a, b) ==
    <<(a[1] + b[1] + LowCarry(a, b)) \div Limb,
      (a[1] + b[1] + LowCarry(a, b)) % Limb,
      (a[2] + b[2]) % Limb>>

\* r is the field of a merge of fields x and y: present iff one of them is,
\* holding the sum of the present ones.
FieldIsSum(x, y, r) ==
    /\ r # None <=> (x # None \/ y # None)
    /\ x # None /\ y # None => r # None /\ <<0, Unwrap(r)[1], Unwrap(r)[2]>> = ExactSum(Unwrap(x), Unwrap(y))
    /\ x # None /\ y = None => r = x
    /\ x = None /\ y # None => r = y

\* C3: every field of a merge a + b is present iff it is present in a or in
\* b and holds the sum of the present operand values; merging a with the
\* all-absent counter yields a.
C3_FieldwiseSum ==
    alg.stage \in {"ab", "abc"} =>
        /\ ~alg.ab.panic
        /\ \A f \in Fields : FieldIsSum(alg.a[f], alg.b[f], alg.ab.val[f])
        /\ alg.b = NoUsage => alg.ab.val = alg.a

\* C6: every invocation of process_files starts on an empty table, and every
\* invocation over the unchanged directory returns the same sequence.
C6_RerunSameOutput ==
    /\ (phase = "processing" /\ \A f \in DOMAIN files : pc[f] = "pending")
          => collected_items = EmptyTable
    /\ \A n \in DOMAIN outputs : outputs[n] = outputs[1]

----------------------------------------------------------------------------
(* Steps that hand a value to print_json_value *)

\* The step hands a value of file f to print_json_value.
Hands(f) == Len(handed'[f]) = Len(handed[f]) + 1

\* The value handed by the step.
HandedValue(f) == handed'[f][Len(handed'[f])]

\* v is a log entry that has a model name and no usage.
IsNoUsageRecord(v) ==
    /\ v.timestamp # None /\ v.message # None
    /\ Unwrap(v.message).model # None
    /\ Unwrap(v.message).usage = None

\* C7 as claimed: collecting a record with a model name and no usage puts its
\* key into the table and leaves the counters of the stored entries as they were.
C7_NoUsageRecordAddsKey ==
    [][\A f \in DOMAIN files :
          (Hands(f) /\ IsNoUsageRecord(HandedValue(f))) =>
              /\ ItemKey(Unwrap(DecodeItem(HandedValue(f)))) \in DOMAIN collected_items'
              /\ \A k \in DOMAIN collected_items : collected_items'[k] = collected_items[k]]_vars

\* C7 as amended: collecting a record with a model name and no usage leaves
\* the table unchanged: its key is not added and no counter changes.
C7_NoUsageRecordLeavesTable ==
    [][\A f \in DOMAIN files :
          (Hands(f) /\ IsNoUsageRecord(HandedValue(f))) =>
              collected_items' = collected_items]_vars

\* C7 witness: a record without usage has been collected, the table holds
\* entries, and none of them is under the record's key.
C7_Witness ==
    \E f \in DOMAIN handed : \E i \in DOMAIN handed[f] :
        /\ IsNoUsageRecord(handed[f][i])
        /\ collected_items # EmptyTable
        /\ ItemKey(Unwrap(DecodeItem(handed[f][i]))) \notin DOMAIN collected_items

\* v lacks the timestamp or the message of a log entry.
WrongShape(v) == v.timestamp = None \/ v.message = None

\* v has the shape of a log entry and no message.model.
LacksModel(v) == ~WrongShape(v) /\ Unwrap(v.message).model = None

\* C8: a value without message.model, or not of the shape of a log entry,
\* leaves the table unchanged and raises nothing.
C8_UndecodableLeavesTable ==
    [][\A f \in DOMAIN files :
          (Hands(f) /\ (WrongShape(HandedValue(f)) \/ LacksModel(HandedValue(f)))) =>
              /\ collected_items' = collected_items
              /\ phase' = phase]_vars

\* C8 witness: a value without model and a value without timestamp have been
\* handed over while the table held an entry.
C8_Witness ==
    \E f \in DOMAIN handed : \E i, j \in DOMAIN handed[f] :
        /\ WrongShape(handed[f][i])
        /\ LacksModel(handed[f][j])
        /\ Unwrap(handed[f][j].message).usage # None
        /\ collected_items # EmptyTable

\* The first non-blank line of file f is a JSON value on its own.
FirstLineValid(f) ==
    NonBlank(files[f].content) # <<>> /\ Head(NonBlank(files[f].content)).kind = "value"

\* C9: in JSON-Lines mode a line that is no JSON contributes nothing and does
\* not stop the loop: when the file is done, exactly the values of its valid
\* lines, before and after a bad line, were handed over in order, and the
\* keys of their usage-carrying records are in the table.
C9_BadLineSkipped ==
    \A f \in DOMAIN files :
        (pc[f] = "done" /\ FirstLineValid(f)) =>
            /\ handed[f] = ValidValues(files[f].content)
            /\ \A r \in Range(RecordsOfFile(f)) : r.key \in DOMAIN collected_items

\* C9 witness: a file of three lines, the second no JSON, is done and the
\* records of lines 1 and 3 were handed over and merged.
C9_Witness ==
    \E f \in DOMAIN files :
        /\ pc[f] = "done"
        /\ Len(files[f].content) = 3
        /\ files[f].content[1].kind = "value"
        /\ files[f].content[2].kind = "bad"
        /\ files[f].content[3].kind = "value"
        /\ handed[f] = <<files[f].content[1].json, files[f].content[3].json>>
        /\ Cardinality(DOMAIN collected_items) = 2

\* C10: the first non-blank line alone decides the framing: if it is a JSON
\* value, every valid line yields a value and the whole content is never
\* parsed as a document; otherwise the whole content is parsed as one document
\* and yields one value if it is one and none if not; without a non-blank
\* line nothing is yielded.
C10_FramingByFirstLine ==
    \A f \in DOMAIN files :
        pc[f] = "done" =>
            IF NonBlank(files[f].content) = <<>>
            THEN handed[f] = <<>> /\ ~doc_parse[f]
            ELSE IF Head(NonBlank(files[f].content)).kind = "value"
            THEN /\ ~doc_parse[f]
                 /\ Len(handed[f]) = Len(ValidValues(files[f].content))
            ELSE /\ doc_parse[f]
                 /\ Len(handed[f]) <= 1
                 /\ Len(handed[f]) = 1 <=> from_str_content(files[f].content) # None

\* C10 witness: a file whose first non-blank line is no JSON on its own and
\* whose whole content is one document is done and yielded one record.
C10_Witness ==
    \E f \in DOMAIN files :
        /\ pc[f] = "done"
        /\ doc_parse[f]
        /\ Len(NonBlank(files[f].content)) = 2
        /\ Len(handed[f]) = 1
        /\ collected_items # EmptyTable

----------------------------------------------------------------------------
\* The keys of the usage-carrying records among the values handed for file f.
KeysHandedFor(f) ==
    {ItemKey(Unwrap(DecodeItem(handed[f][i]))) :
        i \in {j \in DOMAIN handed[f] :
                 /\ DecodeItem(handed[f][j]) # None
                 /\ Unwrap(DecodeItem(handed[f][j])).usage # None}}

\* C11: a file that is not at root/<subdirectory>/<file> (it sits in the
\* root itself or one directory deeper) is never among the discovered files,
\* is never taken by a worker, has no value handed on, and every key of the
\* table comes from a record of a file at depth two.
C11_OnlyDepthTwoFilesRead ==
    /\ \A f \in DOMAIN files :
          files[f].place # "sub"
            => /\ ~InAllFiles(f)
               /\ pc[f] = "pending"
               /\ handed[f] = <<>>
               /\ ~doc_parse[f]
    /\ \A k \in DOMAIN collected_items :
          \E f \in DOMAIN files : files[f].place = "sub" /\ k \in KeysHandedFor(f)

\* A finished run over a tree with a log file one directory too deep and a
\* log file at depth two whose record is in the table.
C11_Witness ==
    /\ phase = "returned"
    /\ \E f, g \in DOMAIN files :
          /\ files[f].place = "deep" /\ files[f].content = <<RecA>>
          /\ files[g].place = "sub" /\ handed[g] = <<RecA.json>>
    /\ DOMAIN collected_items = {<<Claude, Jan1>>}
    /\ Len(LastOutput) = 1

----------------------------------------------------------------------------
\* C12: the step in which a worker takes a file whose extension is neither
\* json nor jsonl finishes the file at once and leaves the table as it was,
\* and no value of such a file is ever handed on, whatever the file holds.
C12_OtherExtensionLeavesTable ==
    [][\A f \in DOMAIN files :
          (files[f].ext # "json" /\ files[f].ext # "jsonl")
            => /\ handed[f] = <<>> /\ handed'[f] = <<>>
               /\ ~doc_parse'[f]
               /\ (pc[f] = "pending" /\ pc'[f] # "pending")
                     => (pc'[f] = "done" /\ collected_items' = collected_items)]_vars

\* A finished run that discovered and took a .txt file holding a valid record.
C12_Witness ==
    /\ phase = "returned"
    /\ \E f \in DOMAIN files :
          /\ files[f].ext = "txt" /\ files[f].content = <<RecA>>
          /\ InAllFiles(f) /\ pc[f] = "done"
    /\ collected_items = EmptyTable

----------------------------------------------------------------------------
\* File f fails in its own scope: its subdirectory does not list, the file
\* does not read, or its content is malformed as a whole.
FailsLocally(f) ==
    /\ files[f].place = "sub"
    /\ \/ ~files[f].dir_readable
       \/ ~files[f].readable
       \/ (NonBlank(files[f].content) # <<>>
             /\ Head(NonBlank(files[f].content)).kind # "value"
             /\ from_str_content(files[f].content) = None)

\* C13: a subdirectory that does not list, a file that does not read and a
\* file with malformed content hand no value on and never keep a worker in
\* the loop over lines; the run never panics over them; and the returned
\* sequence holds, for every key of the records of the other log files, the
\* merge of all those records, and nothing else.
C13_FailuresContained ==
    /\ phase # "panicked"
    /\ \A f \in DOMAIN files :
          FailsLocally(f) => (handed[f] = <<>> /\ pc[f] \in {"pending", "done"})
    /\ (phase = "returned" /\ root = "ok") =>
          /\ Len(LastOutput) = Cardinality(ExpectedKeys)
          /\ \A k \in ExpectedKeys :
                \E i \in DOMAIN LastOutput : LastOutput[i] = <<k, ExpectedTable[k]>>

\* A finished run over a subdirectory that does not list and a log file with
\* a malformed line between two records: the output is the merge of the two.
C13_Witness ==
    /\ phase = "returned"
    /\ \E f, g \in DOMAIN files :
          /\ ~files[f].dir_readable /\ FailsLocally(f)
          /\ files[g] = FileOf("jsonl", <<RecA, BadLine, RecB>>)
    /\ LastOutput = << << <<Claude, Jan1>>,
                          UsageOf({U32(15)}, {U32(20)}, None, None) >> >>

----------------------------------------------------------------------------
\* The root holds no directory: every file below it sits in the root itself.
NoSubdirectories == \A f \in DOMAIN files : files[f].place = "root"

\* C14: when the root does not exist, does not list, or holds no
\* subdirectory, no file is discovered, taken by a worker or parsed, the run
\* does not panic and can always go on until it has returned, and what it
\* returns is the empty sequence.
C14_NoRootNoSubdirsReturnsEmpty ==
    (root # "ok" \/ NoSubdirectories) =>
        /\ phase # "panicked"
        /\ phase # "returned" => ENABLED Next
        /\ all_files = <<>>
        /\ \A f \in DOMAIN files :
              pc[f] = "pending" /\ handed[f] = <<>> /\ ~doc_parse[f]
        /\ collected_items = EmptyTable
        /\ phase = "returned" => outputs = << <<>> >>

\* The run over a root that does not list, with a log file below it, has
\* returned.
C14_Witness ==
    /\ root = "unreadable"
    /\ phase = "returned"
    /\ outputs = << <<>> >>
    /\ \E f \in DOMAIN files : files[f] = FileOf("jsonl", <<RecA>>)

----------------------------------------------------------------------------
\* The first non-blank line of file f is not a JSON value on its own, and
\* the content of f as a whole is not one JSON document.
NeitherLinesNorDocument(f) ==
    LET nb == NonBlank(files[f].content) IN
    /\ nb # <<>>
    /\ nb[1].kind # "value"
    /\ ~(Len(nb) = 2 /\ nb[1].kind = "open" /\ nb[2].kind = "close")

\* C18: a file whose first non-blank line is not JSON on its own and whose
\* content is not one JSON document has, once its worker is done, had the
\* whole content given to the parser once and no value handed on, so no key
\* of the table comes from it, whatever its later lines hold.
C18_BadFirstLineYieldsNothing ==
    \A f \in DOMAIN files :
        (NeitherLinesNorDocument(f) /\ pc[f] = "done")
          => /\ doc_parse[f]
             /\ handed[f] = <<>>
             /\ line_no[f] = 1
             /\ \A k \in DOMAIN collected_items :
                   \E g \in DOMAIN files \ {f} : k \in KeysHandedFor(g)

\* A finished run over a file of three lines: a line that is not JSON, then
\* two valid records with usage; the table is empty.
C18_Witness ==
    /\ phase = "returned"
    /\ \E f \in DOMAIN files :
          /\ Len(files[f].content) = 3
          /\ files[f].content[1].kind = "bad"
          /\ \A i \in 2..3 :
                /\ files[f].content[i].kind = "value"
                /\ DecodeItem(files[f].content[i].json) # None
                /\ Unwrap(DecodeItem(files[f].content[i].json)).usage # None
          /\ pc[f] = "done" /\ handed[f] = <<>>
    /\ collected_items = EmptyTable
    /\ LastOutput = <<>>

----------------------------------------------------------------------------
\* a <= b for two u32 written as limbs.
U32Leq(a, b) == a[1] < b[1] \/ (a[1] = b[1] /\ a[2] <= b[2])

\* The record handed by the step, when the value decodes to one with usage.
MergedItem(f) == Unwrap(DecodeItem(HandedValue(f)))

MergesUsage(f) ==
    /\ Hands(f)
    /\ DecodeItem(HandedValue(f)) # None
    /\ MergedItem(f).usage # None

\* C16: in every step of a run each key of the table stays in it, each field
\* present under a key stays present and its count does not decrease; and a
\* step that merges a record under a key already stored leaves in every
\* field present on both sides the stored count plus the record's count.
C16_TableOnlyGrows ==
    [][/\ \A k \in DOMAIN collected_items :
             /\ k \in DOMAIN collected_items'
             /\ \A fld \in Fields :
                   collected_items[k][fld] # None
                     => /\ collected_items'[k][fld] # None
                        /\ U32Leq(Unwrap(collected_items[k][fld]),
                                  Unwrap(collected_items'[k][fld]))
       /\ \A f \in DOMAIN files :
             (MergesUsage(f) /\ phase' # "panicked"
                 /\ ItemKey(MergedItem(f)) \in DOMAIN collected_items)
               => \A fld \in Fields :
                     LET old == collected_items[ItemKey(MergedItem(f))][fld]
                         new == Unwrap(MergedItem(f).usage)[fld]
                         now == collected_items'[ItemKey(MergedItem(f))][fld]
                     IN  (old # None /\ new # None)
                           => /\ now # None
                              /\ <<0, Unwrap(now)[1], Unwrap(now)[2]>>
                                    = ExactSum(Unwrap(old), Unwrap(new))]_vars

----------------------------------------------------------------------------
\* C19: whenever a field is present in both operands of a merge a + b, the
\* addition does not panic and the field of the result is present and holds
\* the integer a + b, not a + b reduced modulo 2^32.
C19_PresentSumExact ==
    alg.stage \in {"ab", "abc"} =>
        \A fld \in Fields :
            (alg.a[fld] # None /\ alg.b[fld] # None)
              => /\ ~alg.ab.panic
                 /\ alg.ab.val[fld] # None
                 /\ <<0, Unwrap(alg.ab.val[fld])[1], Unwrap(alg.ab.val[fld])[2]>>
                       = ExactSum(Unwrap(alg.a[fld]), Unwrap(alg.b[fld]))

----------------------------------------------------------------------------
\* C15: a run never aborts and can always go on until process_files has
\* returned; when it has returned, every discovered file was taken by a
\* worker that ran to its end and the returned sequence is the snapshot of
\* the final table; and every merge into the table happens while no
\* sequence has been returned yet and none is returned in the same step.
C15_RunCompletes ==
    /\ [](/\ phase # "panicked"
          /\ phase # "returned" => ENABLED Next
          /\ phase = "returned" =>
                /\ root = "ok" => \A f \in Discovered(files) : InAllFiles(f)
                /\ \A f \in DOMAIN files : InAllFiles(f) => pc[f] = "done"
                /\ Len(LastOutput) = Cardinality(DOMAIN collected_items)
                /\ \A i \in DOMAIN LastOutput :
                      /\ LastOutput[i][1] \in DOMAIN collected_items
                      /\ LastOutput[i][2] = collected_items[LastOutput[i][1]])
    /\ [][/\ \A f \in DOMAIN files :
                Hands(f) => (phase = "processing" /\ outputs = <<>> /\ outputs' = <<>>)
          /\ outputs # <<>> => collected_items' = collected_items]_vars

----------------------------------------------------------------------------
\* The timestamps of the input sets that are RFC 3339 timestamps.
Rfc3339Stamps == {TsJan1, TsJan1Noon, TsFeb1, TsJan1LateWest, TsJan1EarlyEast, TsJan2EarlyEast}

\* The calendar day a timestamp is written with, and the calendar day of
\* its instant in UTC, worked out by hand; a string that is no timestamp
\* stands for itself.
WrittenDay(ts) == IF ts \in Rfc3339Stamps THEN SubSeq(ts, 1, 10) ELSE ts

UtcDay(ts) ==
    CASE ts \in {TsJan1, TsJan1Noon, TsJan2EarlyEast} -> Jan1
      [] ts = TsJan1LateWest -> Jan2
      [] ts = TsJan1EarlyEast -> Dec31
      [] ts = TsFeb1 -> Feb1
      [] OTHER -> ts

\* The timestamp of line i of file f (every line of the files is a record).
StampOf(f, i) == Unwrap(files[f].content[i].json.timestamp)

\* The keys of a returned run are the model with Bucket(timestamp) of each
\* record, and the count under a key is the number of records of its bucket
\* (every record counts one input token).
BucketedBy(Bucket(_)) ==
    phase = "returned" =>
        \A f \in DOMAIN files :
            /\ DOMAIN collected_items
                  = {<<Claude, Bucket(StampOf(f, i))>> : i \in DOMAIN files[f].content}
            /\ \A k \in DOMAIN collected_items :
                  collected_items[k].input_tokens
                    = Some(U32(Cardinality({i \in DOMAIN files[f].content :
                                               Bucket(StampOf(f, i)) = k[2]})))

\* C17 as stated: the bucket of a timestamp that parses is the calendar day
\* it is written with, so records written with the same day share a key; a
\* timestamp that does not parse is its own bucket.
C17_BucketIsWrittenDay == BucketedBy(WrittenDay)

\* C17: the bucket of a timestamp that parses is the calendar day of its
\* instant in UTC, so records of one model on the same UTC day share a key
\* and the others do not; a timestamp that does not parse is its own bucket,
\* so different strings that do not parse give different keys.
C17_BucketIsUtcDay == BucketedBy(UtcDay)

\* A returned run over three records: one at midnight UTC of 1 January, one
\* written late on 1 January five hours west of UTC, one written on
\* 2 January nine hours east of UTC; the first and the last share a key.
C17_Witness ==
    /\ phase = "returned"
    /\ {StampOf(1, i) : i \in DOMAIN files[1].content}
          = {TsJan1, TsJan1LateWest, TsJan2EarlyEast}
    /\ DOMAIN collected_items = {<<Claude, Jan1>>, <<Claude, Jan2>>}
    /\ collected_items[<<Claude, Jan1>>].input_tokens = Some(U32(2))

====
